---- MODULE Spec2Model ----
(***************************************************************************)
(* A model of rosbag::Bag, rosbag::View and rosbag::View::iterator          *)
(* (src/src/rosbag.cpp, src/include/rosbag/rosbag.h).                       *)
(*                                                                         *)
(* One Bag handle and one file path are modelled.  The file is a sequence  *)
(* of chunks, each with the byte offset at which it starts and its byte    *)
(* length, so that every position the code stores (record_pos_,            *)
(* IndexEntry.pos, index_pos) is a real byte offset.  A chunk is what one  *)
(* call of writeVersion, writeFileHeader or writeRecord, or one round of  *)
(* the loop of writeIndex, puts into the stream.                          *)
(***************************************************************************)
EXTENDS Integers, Sequences, FiniteSets, TLC

\* ------------------------------------------------------------------ bounds

\* write() calls that are not discarded, in one behaviour
MaxWrites == 2
\* the greatest timestamp
MaxTime == 1
MaxCalls == 4

\* ---------------------------------------------------------------- constants

\* rosbag/constants.h: the opcodes (symbolic: only their distinctness matters)
OP_MSG_DEF == "OP_MSG_DEF"
OP_MSG_DATA == "OP_MSG_DATA"
OP_FILE_HEADER == "OP_FILE_HEADER"
OP_INDEX_DATA == "OP_INDEX_DATA"
\* what a chunk that is no record (the version line) carries as its op
VERSION_LINE == "VERSION_LINE"

FILE_HEADER_LENGTH == 4096
INDEX_VERSION == 0
VERSION_MAJOR == 1
VERSION_MINOR == 2
\* "#ROSRECORD V1.2\n"
VERSION_LINE_LENGTH == 16
\* sizeof(IndexEntry): sec(4) nsec(4) pos(8)
INDEX_ENTRY_SIZE == 16
\* the length checkField demands of the md5 field
MD5_LENGTH == 32

\* ros::TIME_MIN and ros::TIME_MAX, the default bounds of a Query, are the
\* least and the greatest time; the model's clock runs from 0 to MaxTime.
TIME_MIN == 0
TIME_MAX == MaxTime
Times == TIME_MIN..TIME_MAX

\* ------------------------------------------------------------------- inputs

\* The keys of std::map<std::string, ...> in the order the map iterates them.
TopicOrder == <<"/a", "/b", "/c">>
\* topics written to
Topics == {"/a", "/b"}

EmptyMap == [k \in {} |-> 0]

\* msg.__connection_header: NULL, or a map
NullConn == [null |-> TRUE, map |-> EmptyMap]
LatchedConn == [null |-> FALSE,
                map |-> [k \in {"latching", "callerid"} |->
                           IF k = "latching" THEN "1" ELSE "/rec"]]

\* Messages: what the type registry yields for the message (datatype,
\* 32-character fingerprint, definition, possibly empty) and its serialized
\* bytes.
MsgString == [datatype |-> "std_msgs/String",
              md5sum   |-> "992ce8a1687cec8c8bd883ec73ca41d1",
              msg_def  |-> "string data",
              payload  |-> "hi",
              conn     |-> NullConn]
MsgLegacy == [datatype |-> "std_msgs/Int8",
              md5sum   |-> "27ffa0c9c4b8fb8492252bcad9e5c57b",
              msg_def  |-> "",
              payload  |-> "x",
              conn     |-> LatchedConn]
Msgs == {MsgString, MsgLegacy}

\* What a disk check finds: less than 1GB free ("low"), 5GB or more
\* ("plenty"), or neither, which is also what a failed statvfs and a check
\* that is not yet due come to ("none").
DiskStates == {"none", "low", "plenty"}

\* ------------------------------------------------------------------- state

VARIABLES
  file,              \* the chunks of the file at the path, by offset
  mode_,             \* Bag::mode_
  ws_open,           \* write_stream_.is_open()
  ws_fail,           \* write_stream_.fail()
  rs_open,           \* read_stream_.is_open()
  rs_fail,           \* read_stream_.fail()
  record_pos_,       \* Bag::record_pos_
  file_header_pos_,  \* Bag::file_header_pos_
  index_data_pos_,   \* Bag::index_data_pos_
  topics_recorded_,  \* Bag::topics_recorded_ : topic -> MsgInfo
  topic_indexes_,    \* Bag::topic_indexes_   : topic -> Seq(IndexEntry)
  writing_enabled_,  \* Bag::writing_enabled_
  version_major_,    \* Bag::version_major_
  version_minor_,    \* Bag::version_minor_
  view,              \* the View last returned by getViewByTopic
  iter,              \* the View::iterator being traversed
  yielded,           \* history: the instances the iterator was dereferenced to
  written,           \* history: the writes whose records went to the file
  hist               \* history: how the file and the tables came about:
                     \*   writes    write() calls that were not discarded
                     \*   w_clean   open(Write) found the handle's tables empty
                     \*   file_ok   the file is a bag written and closed
                     \*   read_ok   the tables were loaded from that bag by an
                     \*             open(Read) that found them empty
                     \*   w_topics, w_indexes   the tables close() found
                     \*   r_opens   open(Read) calls on the closed bag (0, 1, 2+)
                     \*   r_topics, r_indexes   the tables the first left
                     \*   reopened  the last open(Read) was on a handle whose
                     \*             read stream was open

\* Threads that call write() and close() on the one handle at the same time
VARIABLES
  pc,                \* thread -> where the thread is in its call
  call,              \* thread -> the arguments and locals of its write()
  record_mutex_,     \* Bag::record_mutex_: the thread that holds it, or Free
  topics_recorded_mutex_,  \* Bag::topics_recorded_mutex_, likewise
  check_disk_mutex_,       \* Bag::check_disk_mutex_, likewise
  tellp_off          \* write_stream_.tellp() - record_pos_

\* MessageInstance::instantiate<T>()
VARIABLES
  inst,              \* the last instantiate<T>(): T and what came back
  last               \* the last call on the handle, and what the caller got

\* Two iterators over the one View
VARIABLES
  it2,               \* a second View::iterator: its queue, whether it came
                     \* from begin(), after how many increments of the
                     \* first, and its own increments since
  eq                 \* the last it == it2: the operands and what came back

bagVars == <<mode_, ws_open, ws_fail, rs_open, rs_fail, record_pos_,
             file_header_pos_, index_data_pos_, topics_recorded_,
             topic_indexes_, writing_enabled_, version_major_, version_minor_>>
viewVars == <<view, iter, yielded, it2>>
concVars == <<pc, call, record_mutex_, topics_recorded_mutex_, check_disk_mutex_,
              tellp_off>>
extVars == <<concVars, inst, last, eq>>
vars == <<file, bagVars, viewVars, written, hist, extVars>>

\* ----------------------------------------------------------------- helpers

MapPut(m, k, v) == [x \in (DOMAIN m) \cup {k} |-> IF x = k THEN v ELSE m[x]]

\* The keys of map m in std::map iteration order.
KeysInOrder(m) == SelectSeq(TopicOrder, LAMBDA t : t \in DOMAIN m)

Range(s) == {s[i] : i \in 1..Len(s)}

\* ------------------------------------------------------------ record sizes

\* ros::Header::write: each field is a 4-byte length, then name '=' value.
FieldSize(name, value_len) == 4 + Len(name) + 1 + value_len

\* writeHeader/writeRecord: hdr_len(4) header data_len(4) data
RecordSize(header_len, data_len) == 4 + header_len + 4 + data_len

FileHeaderHeaderLen == FieldSize("op", 1) + FieldSize("index_pos", 8)

DefHeaderLen(topic, info) ==
  FieldSize("op", 1) + FieldSize("topic", Len(topic))
    + FieldSize("md5", Len(info.md5sum)) + FieldSize("type", Len(info.datatype))
    + FieldSize("def", Len(info.msg_def))

Latching(msg) ==
  /\ ~msg.conn.null
  /\ "latching" \in DOMAIN msg.conn.map
  /\ msg.conn.map["latching"] # "0"

CallerId(msg) ==
  IF ~msg.conn.null /\ "callerid" \in DOMAIN msg.conn.map
  THEN msg.conn.map["callerid"] ELSE ""

DataHeaderLen(topic, info, msg) ==
  FieldSize("op", 1) + FieldSize("topic", Len(topic))
    + FieldSize("md5", Len(info.md5sum)) + FieldSize("type", Len(info.datatype))
    + FieldSize("sec", 4) + FieldSize("nsec", 4)
    + (IF Latching(msg)
       THEN FieldSize("latching", 1) + FieldSize("callerid", Len(CallerId(msg)))
       ELSE 0)

IndexHeaderLen(topic, info) ==
  FieldSize("op", 1) + FieldSize("topic", Len(topic))
    + FieldSize("type", Len(info.datatype)) + FieldSize("ver", 4)
    + FieldSize("count", 4)

\* -------------------------------------------------------------------- file

FileSize(f) == IF f = <<>> THEN 0 ELSE f[Len(f)].pos + f[Len(f)].len

\* write_stream_.write at offset pos: the chunk replaces what it covers.  A
\* chunk covered in part is no longer readable and is dropped.
WriteAt(f, pos, len, rec) ==
  SelectSeq(f, LAMBDA c : c.pos + c.len <= pos)
    \o <<[pos |-> pos, len |-> len, rec |-> rec]>>
    \o SelectSeq(f, LAMBDA c : c.pos >= pos + len)

\* The output stream with the shadow position: writefil writes n bytes at
\* the put position when the stream is open and good, and adds n to
\* record_pos_ in every case.
Out(f, pos, open, fail) == [file |-> f, pos |-> pos, open |-> open, fail |-> fail]

writefil(o, len, rec) ==
  IF o.open /\ ~o.fail
  THEN [o EXCEPT !.file = WriteAt(o.file, o.pos, len, rec), !.pos = o.pos + len]
  ELSE [o EXCEPT !.pos = o.pos + len, !.fail = TRUE]

\* seek that leaves the stream where it stands
seek_stay(o, pos) == o

seek(o, pos) == [o EXCEPT !.pos = pos]

\* ------------------------------------------------------------------ writer

\* Where an uninitialized record_pos_ is read, one of these is what it holds.
Uninit == -1
UninitValues == {0, 5}

NoMsgInfo == [topic |-> "", msg_def |-> "", md5sum |-> "", datatype |-> ""]

checkDisk(free, enabled) ==
  CASE free = "low"    -> FALSE
    [] free = "plenty" -> TRUE
    [] OTHER           -> enabled

writeVersion(o) ==
  writefil(o, VERSION_LINE_LENGTH,
           [op |-> VERSION_LINE, major |-> VERSION_MAJOR, minor |-> VERSION_MINOR])

writeFileHeader(o, index_pos) ==
  LET header_len == FileHeaderHeaderLen
      data_len == IF header_len < FILE_HEADER_LENGTH
                  THEN FILE_HEADER_LENGTH - header_len ELSE 0
  IN  writefil(o, RecordSize(header_len, data_len),
               [op |-> OP_FILE_HEADER, index_pos |-> index_pos])

\* write() taking the MsgInfo from every message, not the first only
Admit_overwrite(tr, ti, topic, msg) ==
  [tr |-> MapPut(tr, topic, [topic    |-> topic,
                             msg_def  |-> msg.msg_def,
                             datatype |-> msg.datatype,
                             md5sum   |-> msg.md5sum]),
   ti |-> IF topic \in DOMAIN tr THEN ti ELSE MapPut(ti, topic, <<>>),
   needs_def_written |-> topic \notin DOMAIN tr]

\* write() asking for a definition record with every message
Admit_every(tr, ti, topic, msg) ==
  IF topic \notin DOMAIN tr
  THEN [tr |-> MapPut(tr, topic, [topic    |-> topic,
                                  msg_def  |-> msg.msg_def,
                                  datatype |-> msg.datatype,
                                  md5sum   |-> msg.md5sum]),
        ti |-> MapPut(ti, topic, <<>>),
        needs_def_written |-> TRUE]
  ELSE [tr |-> tr, ti |-> ti, needs_def_written |-> TRUE]

\* write(), the block under topics_recorded_mutex_
Admit(tr, ti, topic, msg) ==
  IF topic \notin DOMAIN tr
  THEN [tr |-> MapPut(tr, topic, [topic    |-> topic,
                                  msg_def  |-> msg.msg_def,
                                  datatype |-> msg.datatype,
                                  md5sum   |-> msg.md5sum]),
        ti |-> MapPut(ti, topic, <<>>),
        needs_def_written |-> TRUE]
  ELSE [tr |-> tr, ti |-> ti, needs_def_written |-> FALSE]

\* write() putting the index entry in front
PushIndex_front(ti, topic, time, pos) ==
  MapPut(ti, topic,
         <<[time |-> time, pos |-> pos]>>
           \o (IF topic \in DOMAIN ti THEN ti[topic] ELSE <<>>))

\* write() with an index entry that points past the length word of the record
PushIndex_skew(ti, topic, time, pos) ==
  MapPut(ti, topic,
         Append(IF topic \in DOMAIN ti THEN ti[topic] ELSE <<>>,
                [time |-> time, pos |-> pos + 4]))

\* write(), the index entry pushed under record_mutex_
PushIndex(ti, topic, time, pos) ==
  MapPut(ti, topic,
         Append(IF topic \in DOMAIN ti THEN ti[topic] ELSE <<>>,
                [time |-> time, pos |-> pos]))

\* write(), the records emitted under record_mutex_
EmitDef(o, topic, info) ==
  writefil(o, RecordSize(DefHeaderLen(topic, info), 0),
           [op |-> OP_MSG_DEF, topic |-> topic, md5 |-> info.md5sum,
            type |-> info.datatype, def |-> info.msg_def])

EmitData(o, topic, info, time, msg) ==
  writefil(o, RecordSize(DataHeaderLen(topic, info, msg), Len(msg.payload)),
           [op |-> OP_MSG_DATA, topic |-> topic, md5 |-> info.md5sum,
            type |-> info.datatype, time |-> time, latching |-> Latching(msg),
            callerid |-> CallerId(msg), data |-> msg.payload])

EmitRecords(o, topic, info, time, msg, needs_def_written) ==
  EmitData(IF needs_def_written THEN EmitDef(o, topic, info) ELSE o,
           topic, info, time, msg)

\* writeIndex(), the loop over topic_indexes_
RECURSIVE WriteIndexRecords(_, _, _, _)
WriteIndexRecords(o, keys, ti, tr) ==
  IF keys = <<>> THEN o
  ELSE LET topic_name == Head(keys)
           topic_index == ti[topic_name]
           msg_info == IF topic_name \in DOMAIN tr THEN tr[topic_name] ELSE NoMsgInfo
           data_len == Len(topic_index) * INDEX_ENTRY_SIZE
       IN  WriteIndexRecords(
             writefil(o, RecordSize(IndexHeaderLen(topic_name, msg_info), data_len),
                      [op |-> OP_INDEX_DATA, topic |-> topic_name,
                       type |-> msg_info.datatype, ver |-> INDEX_VERSION,
                       count |-> Len(topic_index), entries |-> topic_index]),
             Tail(keys), ti, tr)

\* writeIndex() taking the position for the file header after the loop
writeIndex_after(o, ti, tr, header_pos) ==
  LET o1 == WriteIndexRecords(o, KeysInOrder(ti), ti, tr)
  IN  writeFileHeader(seek(o1, header_pos), o1.pos)

\* writeIndex(): the index records, then the file header again, in place
writeIndex(o, ti, tr, header_pos) ==
  writeFileHeader(seek(WriteIndexRecords(o, KeysInOrder(ti), ti, tr), header_pos),
                  o.pos)

\* ------------------------------------------------------------------ reader

\* The chunks of f that start at offset pos (at most one).
ChunksAt(f, pos) == {f[i] : i \in {j \in 1..Len(f) : f[j].pos = pos}}

\* readHeader with the stream at offset pos: the record that starts there.
\* It fails (the read runs into the end of the file) when the stream has
\* failed, or no record starts at pos.
readHeader(f, pos, failed) ==
  LET cs == {c \in ChunksAt(f, pos) : c.rec.op # VERSION_LINE}
  IN  IF failed \/ cs = {}
      THEN [ok |-> FALSE]
      ELSE LET c == CHOOSE x \in cs : TRUE
           IN  [ok |-> TRUE, rec |-> c.rec, next |-> c.pos + c.len]

\* checkField(fields, field, min_len, max_len, true) on a string field
checkField(value, min_len, max_len) ==
  Len(value) >= min_len /\ Len(value) <= max_len

\* checkField(fields, field, min_len, UINT_MAX, true): no value is longer
checkFieldMin(value, min_len) == Len(value) >= min_len

\* readVersion: the numbers of the version line; a major number of 0 on a
\* line that begins with '#' is taken for 1
readVersion(f, failed) ==
  LET cs == {c \in ChunksAt(f, 0) : c.rec.op = VERSION_LINE}
  IN  IF failed \/ cs = {}
      THEN [ok |-> FALSE]
      ELSE LET c == CHOOSE x \in cs : TRUE
           IN  [ok |-> TRUE,
                major |-> IF c.rec.major = 0 THEN 1 ELSE c.rec.major,
                minor |-> c.rec.minor,
                next |-> c.len]

\* readVersion's test: TRUE when the file is refused
VersionRefused(major, minor) ==
  major # VERSION_MAJOR /\ minor # VERSION_MINOR

\* readFileHeader: the index_pos of the record at pos, or old when the
\* record is not read or has no such field
readFileHeader(f, pos, failed, old) ==
  LET h == readHeader(f, pos, failed)
  IN  IF h.ok /\ h.rec.op = OP_FILE_HEADER THEN h.rec.index_pos ELSE old

\* readIndex, a count that is one short
readIndexEntries_short(count, entries) == SubSeq(entries, 1, count - 1)

\* readIndex, the loop over the count entries of an index record
readIndexEntries(count, entries) == SubSeq(entries, 1, count)

\* readIndex: the loop.  An index record's entries are pushed onto the
\* topic's vector; the loop ends at the first offset that holds no record
\* (the end of the file), and the function returns at a record that lacks a
\* field of an index record.
RECURSIVE readIndex(_, _, _, _)
readIndex(f, pos, failed, ti) ==
  LET h == readHeader(f, pos, failed)
  IN  IF ~h.ok THEN [ti |-> ti, eof |-> TRUE]
      ELSE IF h.rec.op # OP_INDEX_DATA THEN [ti |-> ti, eof |-> FALSE]
      ELSE IF ~checkFieldMin(h.rec.topic, 1) \/ ~checkFieldMin(h.rec.type, 1)
           THEN [ti |-> ti, eof |-> FALSE]
      ELSE readIndex(f, h.next, failed,
                     MapPut(ti, h.rec.topic,
                            (IF h.rec.topic \in DOMAIN ti THEN ti[h.rec.topic] ELSE <<>>)
                              \o readIndexEntries(h.rec.count, h.rec.entries)))

\* readDef(pos): a MsgInfo for the topic of the definition record at pos,
\* unless the topic has one.  failed: the stream's state after the call.
readDef(f, pos, failed, tr) ==
  LET h == readHeader(f, pos, failed)
  IN  IF ~h.ok THEN [tr |-> tr, failed |-> TRUE]
      ELSE IF h.rec.op # OP_MSG_DEF THEN [tr |-> tr, failed |-> FALSE]
      ELSE IF \/ ~checkFieldMin(h.rec.topic, 1)
              \/ ~checkField(h.rec.md5, MD5_LENGTH, MD5_LENGTH)
              \/ ~checkFieldMin(h.rec.type, 1)
              \/ ~checkFieldMin(h.rec.def, 0)
           THEN [tr |-> tr, failed |-> FALSE]
      ELSE IF h.rec.topic \in DOMAIN tr THEN [tr |-> tr, failed |-> FALSE]
      ELSE [tr |-> MapPut(tr, h.rec.topic,
                          [topic    |-> h.rec.topic,
                           msg_def  |-> h.rec.def,
                           datatype |-> h.rec.type,
                           md5sum   |-> h.rec.md5]),
            failed |-> FALSE]

\* readDefs: readDef at the first entry of every topic's index
RECURSIVE readDefs(_, _, _, _, _)
readDefs(f, keys, ti, failed, tr) ==
  IF keys = <<>> THEN [tr |-> tr, failed |-> failed]
  ELSE IF ti[Head(keys)] = <<>> THEN readDefs(f, Tail(keys), ti, failed, tr)
  ELSE LET r == readDef(f, ti[Head(keys)][1].pos, failed, tr)
       IN  readDefs(f, Tail(keys), ti, r.failed, r.tr)

\* Bag::instantiate<T>(pos) for a T whose fingerprint passes: the body of
\* the first record from pos on that is no definition record
NoPayload == "<null>"

\* instantiate that does not step over a definition record
instantiate_noskip(f, pos, failed) ==
  LET h == readHeader(f, pos, failed)
  IN  IF ~h.ok \/ h.rec.op # OP_MSG_DATA THEN NoPayload ELSE h.rec.data

RECURSIVE instantiate(_, _, _)
instantiate(f, pos, failed) ==
  LET h == readHeader(f, pos, failed)
  IN  IF ~h.ok THEN NoPayload
      ELSE IF h.rec.op = OP_MSG_DEF THEN instantiate(f, h.next, failed)
      ELSE IF h.rec.op # OP_MSG_DATA THEN NoPayload
      ELSE IF \/ ~checkFieldMin(h.rec.topic, 1)
              \/ ~checkField(h.rec.md5, MD5_LENGTH, MD5_LENGTH)
              \/ ~checkFieldMin(h.rec.type, 1)
           THEN NoPayload
      ELSE h.rec.data

\* -------------------------------------------------------------------- view

\* std::lower_bound(index.begin(), index.end(), t, IndexEntryCompare()): the
\* halving search, whatever the order of the entries
RECURSIVE lower_bound(_, _, _, _)
lower_bound(index, t, first, len) ==
  IF len <= 0 THEN first
  ELSE LET half == len \div 2
           middle == first + half
       IN  IF index[middle].time < t
           THEN lower_bound(index, t, middle + 1, len - half - 1)
           ELSE lower_bound(index, t, first, half)

\* the end of the range taken as index.end()
upper_bound_end(index, t, first, len) == first + len

\* std::upper_bound(index.begin(), index.end(), t, IndexEntryCompare())
RECURSIVE upper_bound(_, _, _, _)
upper_bound(index, t, first, len) ==
  IF len <= 0 THEN first
  ELSE LET half == len \div 2
           middle == first + half
       IN  IF t < index[middle].time
           THEN upper_bound(index, t, first, half)
           ELSE upper_bound(index, t, middle + 1, len - half - 1)

\* a range counted as one entry whatever its length
RangeSize_one(h) == 1

\* h.end - h.iter: the entries of the range of a helper
RangeSize(h) == h.end - h.iter

\* getViewByTopic: the loop over the topics of the query.  A MergeHelper is
\* the topic (its MsgInfo and index vector) and the positions iter and end
\* in the vector; the merge queue is held as a sequence, its top chosen by
\* QueueTops.
RECURSIVE getViewByTopic(_, _, _, _, _, _, _)
getViewByTopic(topics, start_time, end_time, ti, tr, merge_queue, size) ==
  IF topics = <<>> THEN [merge_queue |-> merge_queue, size |-> size]
  ELSE LET t == Head(topics)
       IN  IF t \in DOMAIN ti /\ t \in DOMAIN tr
           THEN LET h == [topic |-> t,
                          iter  |-> lower_bound(ti[t], start_time, 1, Len(ti[t])),
                          end   |-> upper_bound(ti[t], end_time, 1, Len(ti[t]))]
                IN  IF h.iter # h.end
                    THEN getViewByTopic(Tail(topics), start_time, end_time, ti, tr,
                                        Append(merge_queue, h),
                                        size + RangeSize(h))
                    ELSE getViewByTopic(Tail(topics), start_time, end_time, ti, tr,
                                        merge_queue, size)
           ELSE getViewByTopic(Tail(topics), start_time, end_time, ti, tr,
                               merge_queue, size)

HelperTime(ti, h) == ti[h.topic][h.iter].time

\* the comparison the other way round: the top is a helper of greatest time
QueueTops_greatest(ti, q) ==
  {i \in 1..Len(q) : \A j \in 1..Len(q) : ~(HelperTime(ti, q[i]) < HelperTime(ti, q[j]))}

\* ViewIterHelperCompare orders a below b when a's time is greater, so the
\* top of the priority queue is a helper no other helper's time is below.
QueueTops(ti, q) ==
  {i \in 1..Len(q) : \A j \in 1..Len(q) : ~(HelperTime(ti, q[j]) < HelperTime(ti, q[i]))}

RemoveAt(q, i) == SubSeq(q, 1, i - 1) \o SubSeq(q, i + 1, Len(q))

\* increment that does not push the advanced helper back
increment_nopush(q, i) == RemoveAt(q, i)

\* increment that pushes the advanced helper back even at its end
increment_keep(q, i) ==
  LET t == [q[i] EXCEPT !.iter = @ + 1]
  IN  Append(RemoveAt(q, i), t)

\* View::iterator::increment with helper i at the top
increment(q, i) ==
  LET t == [q[i] EXCEPT !.iter = @ + 1]
  IN  IF t.iter # t.end THEN Append(RemoveAt(q, i), t) ELSE RemoveAt(q, i)

\* dereference taking the MsgInfo at the begin of topics_recorded_
dereference_begin(f, failed, ti, tr, q, i) ==
  LET entry == ti[q[i].topic][q[i].iter]
  IN  [topic   |-> tr[KeysInOrder(tr)[1]].topic,
       time    |-> entry.time,
       pos     |-> entry.pos,
       payload |-> instantiate(f, entry.pos, failed)]

\* View::iterator::dereference with helper i at the top, and the payload
\* instantiate gives for the instance
dereference(f, failed, ti, tr, q, i) ==
  LET entry == ti[q[i].topic][q[i].iter]
  IN  [topic   |-> tr[q[i].topic].topic,
       time    |-> entry.time,
       pos     |-> entry.pos,
       payload |-> instantiate(f, entry.pos, failed)]

\* MessageInstance::instantiate<T>() with a test that knows no '*'
MessageInstance_instantiate_strict(T_md5sum, md5sum, f, pos, failed) ==
  IF T_md5sum # md5sum
  THEN [read |-> FALSE, value |-> NoPayload]
  ELSE [read |-> TRUE, value |-> instantiate(f, pos, failed)]

\* MessageInstance::instantiate<T>(): T_md5sum is MD5Sum<T>::value(), md5sum
\* is getMd5sum(), pos is index_->pos.  read: bag_->instantiate<T> was
\* called; value: the message, NoPayload for an empty pointer.
MessageInstance_instantiate(T_md5sum, md5sum, f, pos, failed) ==
  IF T_md5sum # md5sum /\ SubSeq(T_md5sum, 1, 1) # "*"
  THEN [read |-> FALSE, value |-> NoPayload]
  ELSE [read |-> TRUE, value |-> instantiate(f, pos, failed)]

\* ----------------------------------------------------------------- actions

NoView == [valid |-> FALSE, merge_queue |-> <<>>, size |-> 0,
           topics |-> <<>>, start_time |-> TIME_MIN, end_time |-> TIME_MAX]

\* No second iterator yet
NoIter == [q |-> <<>>, began |-> FALSE, after |-> 0, n |-> 0]

\* No comparison yet
NoEntry == [topic |-> "", time |-> 0, pos |-> 0]
NoEq == [called |-> FALSE, q |-> <<>>, top |-> NoEntry, other |-> <<>>,
         other_top |-> NoEntry, ret |-> FALSE]

\* A View holds iterators into the index vectors: it is given up at every
\* call that changes the vectors or the file.
DropView == view' = NoView /\ iter' = <<>> /\ yielded' = <<>> /\ it2' = NoIter


\* The threads that call write(), and the one that calls close()
Threads == {"w1", "w2"}
Closer == "closer"
Free == "free"

\* No write() call of the thread yet.  def_pos, def_end, data_pos: where the
\* stream was when the definition record began and ended and when the data
\* record began (history).
NoCall == [topic |-> "", time |-> TIME_MIN, msg |-> MsgString,
           needs_def_written |-> FALSE, msg_info |-> NoMsgInfo, dangling |-> FALSE,
           def_pos |-> Uninit, def_end |-> Uninit, data_pos |-> Uninit]

\* No instantiate<T>() call yet
NoInst == [called |-> FALSE]

\* No call on the handle yet
NoLast == [n |-> 0, op |-> "none", topic |-> "", ret |-> "none",
           thrown |-> "none", open |-> FALSE, enabled |-> TRUE, fatal |-> FALSE]

\* Bag::Bag()
Init ==
  /\ file = <<>>
  /\ mode_ = "None"
  /\ ws_open = FALSE /\ ws_fail = FALSE
  /\ rs_open = FALSE /\ rs_fail = FALSE
  /\ record_pos_ = Uninit
  /\ file_header_pos_ = 0
  /\ index_data_pos_ = 0
  /\ topics_recorded_ = EmptyMap
  /\ topic_indexes_ = EmptyMap
  /\ writing_enabled_ = TRUE
  /\ version_major_ = Uninit /\ version_minor_ = Uninit
  /\ view = NoView /\ iter = <<>> /\ yielded = <<>>
  /\ written = <<>>
  /\ hist = [writes |-> 0, w_clean |-> FALSE, file_ok |-> FALSE,
             read_ok |-> FALSE, w_topics |-> EmptyMap, w_indexes |-> EmptyMap,
             r_opens |-> 0, r_topics |-> EmptyMap, r_indexes |-> EmptyMap,
             reopened |-> FALSE]
  /\ pc = [p \in Threads \cup {Closer} |-> "idle"]
  /\ call = [p \in Threads |-> NoCall]
  /\ record_mutex_ = Free
  /\ topics_recorded_mutex_ = Free
  /\ check_disk_mutex_ = Free
  /\ tellp_off = 0
  /\ inst = NoInst
  /\ last = NoLast
  /\ it2 = NoIter
  /\ eq = NoEq

\* Bag(), as the next state: the fields of a handle just constructed
FreshHandle ==
  /\ mode_' = "None"
  /\ ws_open' = FALSE /\ ws_fail' = FALSE
  /\ rs_open' = FALSE /\ rs_fail' = FALSE
  /\ record_pos_' = Uninit
  /\ file_header_pos_' = 0
  /\ index_data_pos_' = 0
  /\ topics_recorded_' = EmptyMap
  /\ topic_indexes_' = EmptyMap
  /\ writing_enabled_' = TRUE
  /\ version_major_' = Uninit /\ version_minor_' = Uninit

\* open(file_name, bagmode::Write); ret: what open returns
DoOpenWrite(free, ret) ==
  /\ mode_' = "Write"
  /\ IF ws_open
     THEN \* write_stream_.open on an open stream fails: return false
          /\ ret = "false"
          /\ ws_fail' = TRUE
          /\ hist' = [hist EXCEPT !.w_clean = FALSE]
          /\ UNCHANGED <<file, ws_open, rs_open, rs_fail, record_pos_,
                         file_header_pos_, index_data_pos_, topics_recorded_,
                         topic_indexes_, writing_enabled_, version_major_,
                         version_minor_, viewVars, written>>
     ELSE LET o1 == writeVersion(Out(<<>>, 0, TRUE, FALSE))
              o2 == writeFileHeader(o1, index_data_pos_)
          IN  /\ ret = "true"
              /\ ws_open' = TRUE
              /\ ws_fail' = o2.fail
              /\ writing_enabled_' = checkDisk(free, writing_enabled_)
              /\ file_header_pos_' = o1.pos
              /\ file' = o2.file
              /\ record_pos_' = o2.pos
              /\ written' = <<>>
              /\ hist' = [hist EXCEPT !.w_clean = (topics_recorded_ = EmptyMap
                                                   /\ topic_indexes_ = EmptyMap),
                                      !.file_ok = FALSE, !.read_ok = FALSE,
                                      !.w_topics = EmptyMap,
                                      !.w_indexes = EmptyMap,
                                      !.r_opens = 0, !.r_topics = EmptyMap,
                                      !.r_indexes = EmptyMap,
                                      !.reopened = FALSE]
              /\ DropView
              /\ UNCHANGED <<rs_open, rs_fail, index_data_pos_, topics_recorded_,
                             topic_indexes_, version_major_, version_minor_>>

\* what a call of open() ends with: the bool returned, or the process ended
Rets == {"true", "false", "abort"}

\* open(file_name, bagmode::Write), its result not looked at
OpenWrite(free) == (\E ret \in Rets : DoOpenWrite(free, ret)) /\ UNCHANGED extVars

\* read_stream_.open on a stream that close() has closed
ReadStreamOpenFails_closed(is_open, f) == f = <<>>

\* read_stream_.open(file_name): std::ifstream::open fails when the stream
\* is open already, or there is no file
ReadStreamOpenFails(is_open, f) == is_open \/ f = <<>>

\* readHeader at an offset inside the file where no record starts: the four
\* bytes read as header_len are not a length, and the realloc to that size
\* may fail (ROS_ASSERT(header_buf_))
GarbageLength(f, pos) == pos < FileSize(f) /\ ~readHeader(f, pos, FALSE).ok

\* an assert(0) of open(), or a failed ROS_ASSERT: the process ends
Aborted ==
  /\ FreshHandle
  /\ hist' = [hist EXCEPT !.w_clean = FALSE, !.read_ok = FALSE,
                          !.reopened = FALSE]
  /\ DropView
  /\ UNCHANGED <<file, written>>

\* open(file_name, bagmode::Read); ret: what open returns, "abort" when an
\* assert ends the process
DoOpenRead(ret) ==
  IF ws_fail
  THEN \* read_stream_.open, and then `if (write_stream_.fail()) return false`
       /\ ret = "false"
       /\ mode_' = "Read"
       /\ rs_open' = (rs_open \/ file # <<>>)
       /\ rs_fail' = ReadStreamOpenFails(rs_open, file)
       /\ hist' = [hist EXCEPT !.read_ok = FALSE]
       /\ UNCHANGED <<file, ws_open, ws_fail, record_pos_, file_header_pos_,
                      index_data_pos_, topics_recorded_, topic_indexes_,
                      writing_enabled_, version_major_, version_minor_,
                      viewVars, written>>
  ELSE IF ReadStreamOpenFails(rs_open, file)
  THEN \* The failure goes unnoticed (write_stream_.fail() is what is
       \* tested): every read of the bootstrap fails, and readHeader goes
       \* on with a header_len it never read, over what header_buf_ holds.
       \* No record the buffer can hold passes for an index record or for
       \* the definition of a new topic, so nothing is loaded: the stream
       \* ends good (readIndex cleared it) or failed, or an assert on the
       \* op of the header, or on the realloc, ends the process.
       \/ /\ ret = "true"
          /\ mode_' = "Read"
          /\ rs_fail' \in BOOLEAN
          /\ hist' = [hist EXCEPT !.read_ok = @ /\ ~rs_fail',
                                  !.r_opens = IF file = <<>> THEN 0
                                              ELSE IF @ = 0 THEN 1 ELSE 2,
                                  !.reopened = rs_open]
          /\ UNCHANGED <<file, ws_open, ws_fail, rs_open, record_pos_,
                         file_header_pos_, index_data_pos_, topics_recorded_,
                         topic_indexes_, writing_enabled_, version_major_,
                         version_minor_, viewVars, written>>
       \/ /\ ret = "abort"
          /\ Aborted
  ELSE LET v == readVersion(file, FALSE)
           major == IF v.ok THEN v.major ELSE version_major_
           minor == IF v.ok THEN v.minor ELSE version_minor_
           index_pos == readFileHeader(file, IF v.ok THEN v.next ELSE 0, FALSE,
                                       index_data_pos_)
           idx == readIndex(file, index_pos, FALSE, topic_indexes_)
           defs == readDefs(file, KeysInOrder(idx.ti), idx.ti, FALSE,
                            topics_recorded_)
       IN  \/ \* no assert fails, or the build has none (NDEBUG)
              /\ ret = "true"
              /\ mode_' = "Read"
              /\ rs_open' = TRUE
              /\ rs_fail' = defs.failed
              /\ version_major_' = major
              /\ version_minor_' = minor
              /\ index_data_pos_' = index_pos
              /\ topic_indexes_' = idx.ti
              /\ topics_recorded_' = defs.tr
              /\ hist' = [hist EXCEPT !.read_ok = (hist.file_ok
                                           /\ topics_recorded_ = EmptyMap
                                           /\ topic_indexes_ = EmptyMap),
                                      !.r_opens = IF @ = 0 THEN 1 ELSE 2,
                                      !.r_topics = IF hist.r_opens = 0
                                                   THEN defs.tr ELSE @,
                                      !.r_indexes = IF hist.r_opens = 0
                                                    THEN idx.ti ELSE @,
                                      !.reopened = rs_open]
              /\ DropView
              /\ UNCHANGED <<file, ws_open, ws_fail, record_pos_, file_header_pos_,
                             writing_enabled_, written>>
           \/ \* the assert(0) of readVersion, or the ROS_ASSERT of readHeader
              /\ VersionRefused(major, minor) \/ GarbageLength(file, index_pos)
              /\ ret = "abort"
              /\ Aborted

\* open(file_name, bagmode::Read), its result not looked at
OpenRead == (\E ret \in Rets : DoOpenRead(ret)) /\ UNCHANGED extVars

\* write() with the test of writing_enabled_ left out
Discards_never(enabled) == FALSE

\* write(): `if (!writing_enabled_) { ...; return; }`
Discards(enabled) == ~enabled

\* write(topic_name, time, msg); check: what the disk check finds;
\* io_error: write_stream_.write fails during the call
DoWrite(topic_name, time, msg, check, io_error) ==
  IF Discards(writing_enabled_)
  THEN UNCHANGED <<file, bagVars, viewVars, written, hist>>
  ELSE
    /\ hist.writes < MaxWrites
    /\ \E pos \in (IF record_pos_ = Uninit THEN UninitValues ELSE {record_pos_}) :
         LET a == Admit(topics_recorded_, topic_indexes_, topic_name, msg)
             msg_info == a.tr[topic_name]
             o0 == Out(file, pos, ws_open, ws_fail \/ io_error)
             o1 == EmitRecords(o0, topic_name, msg_info, time, msg,
                               a.needs_def_written)
         IN  /\ topics_recorded_' = a.tr
             /\ writing_enabled_' = checkDisk(check, writing_enabled_)
             /\ topic_indexes_' = PushIndex(a.ti, topic_name, time, o0.pos)
             /\ file' = o1.file
             /\ record_pos_' = o1.pos
             /\ ws_fail' = o1.fail
             /\ written' = IF ws_open /\ ~o0.fail
                           THEN Append(written, [topic |-> topic_name, time |-> time,
                                                 msg |-> msg])
                           ELSE written
    /\ hist' = [hist EXCEPT !.writes = @ + 1, !.read_ok = FALSE]
    /\ DropView
    /\ UNCHANGED <<mode_, ws_open, rs_open, rs_fail, file_header_pos_,
                   index_data_pos_, version_major_, version_minor_>>

\* write(topic_name, time, msg) on a stream that does not fail
Write(topic_name, time, msg, check) ==
  DoWrite(topic_name, time, msg, check, FALSE) /\ UNCHANGED extVars

\* close() without the test of write_stream_.is_open()
closed_again ==
  [did |-> TRUE,
   o |-> [writeIndex(Out(file, record_pos_, ws_open, ws_fail), topic_indexes_,
                     topics_recorded_, file_header_pos_)
            EXCEPT !.open = FALSE],
   index_data_pos |-> record_pos_,
   tr |-> EmptyMap, ti |-> EmptyMap]

\* close(): what it leaves of the file, the positions and the stream
closed ==
  IF ~ws_open
  THEN [did |-> FALSE, o |-> Out(file, record_pos_, ws_open, ws_fail),
        index_data_pos |-> index_data_pos_,
        tr |-> topics_recorded_, ti |-> topic_indexes_]
  ELSE [did |-> TRUE,
        o |-> [writeIndex(Out(file, record_pos_, ws_open, ws_fail), topic_indexes_,
                          topics_recorded_, file_header_pos_)
                 EXCEPT !.open = FALSE],
        index_data_pos |-> record_pos_,
        tr |-> EmptyMap, ti |-> EmptyMap]

histClosed ==
  IF ~ws_open THEN hist
  ELSE [hist EXCEPT !.file_ok = hist.w_clean /\ ~ws_fail,
                    !.w_topics = topics_recorded_,
                    !.w_indexes = topic_indexes_]

\* close()
DoClose ==
  /\ file' = closed.o.file
  /\ record_pos_' = closed.o.pos
  /\ ws_open' = closed.o.open
  /\ ws_fail' = closed.o.fail
  /\ index_data_pos_' = closed.index_data_pos
  /\ topics_recorded_' = closed.tr
  /\ topic_indexes_' = closed.ti
  /\ hist' = histClosed
  /\ IF closed.did THEN DropView ELSE UNCHANGED viewVars
  /\ UNCHANGED <<mode_, rs_open, rs_fail, file_header_pos_, writing_enabled_,
                 version_major_, version_minor_, written>>

\* close()
Close == DoClose /\ UNCHANGED extVars

\* ~Bag() and then Bag(): the handle is destroyed and a new one made
Reconstruct ==
  /\ file' = closed.o.file
  /\ hist' = [histClosed EXCEPT !.read_ok = FALSE, !.reopened = FALSE]
  /\ FreshHandle
  /\ DropView
  /\ UNCHANGED <<written, extVars>>

\* The topic lists of the queries explored: all the topics written to, a
\* topic never recorded and one left out, a topic named twice.
QueryLists == {<<"/a", "/b">>, <<"/c", "/a">>, <<"/b", "/b">>}

\* The time ranges of the queries explored: the default range, one that
\* ends and one that begins inside it.
QueryRanges == {<<TIME_MIN, TIME_MAX>>, <<TIME_MIN, TIME_MIN>>,
                <<TIME_MIN + 1, TIME_MAX>>}

\* getViewByTopic(topics, start_time, end_time) on a bag opened for Read,
\* and begin() on the View
GetView(topics, start_time, end_time) ==
  /\ mode_ = "Read"
  /\ start_time <= end_time
  /\ LET v == getViewByTopic(topics, start_time, end_time, topic_indexes_,
                             topics_recorded_, <<>>, 0)
     IN  /\ view' = [valid |-> TRUE, merge_queue |-> v.merge_queue, size |-> v.size,
                     topics |-> topics, start_time |-> start_time,
                     end_time |-> end_time]
         /\ iter' = v.merge_queue
  /\ yielded' = <<>>
  /\ it2' = NoIter
  /\ UNCHANGED <<file, bagVars, written, hist, extVars>>

\* View::end: the iterator with the empty queue
End == <<>>

\* equal that compares the positions in the vectors and not the vectors
equal_index(q, i, other, j) ==
  IF q = <<>> /\ other = <<>> THEN TRUE
  ELSE IF q = <<>> \/ other = <<>> THEN FALSE
  ELSE q[i].iter = other[j].iter

\* View::iterator::equal, helper i at the top of the one queue and helper j
\* at the top of the other.  A vector iterator is a position in one topic's
\* index vector: two are equal when topic and position are.
equal(q, i, other, j) ==
  IF q = <<>> /\ other = <<>> THEN TRUE
  ELSE IF q = <<>> \/ other = <<>> THEN FALSE
  ELSE q[i].topic = other[j].topic /\ q[i].iter = other[j].iter

\* *it and then ++it, on an iterator that is not end()
Increment ==
  /\ view.valid
  /\ iter # <<>>
  /\ \E i \in QueueTops(topic_indexes_, iter) :
       /\ yielded' = Append(yielded, dereference(file, rs_fail, topic_indexes_,
                                                 topics_recorded_, iter, i))
       /\ iter' = increment(iter, i)
  /\ UNCHANGED <<file, bagVars, view, it2, written, hist, extVars>>

\* MD5Sum<T>::value() of the types a caller instantiates as: the two message
\* types recorded, and a type that takes any message
TypeFingerprints == {MsgString.md5sum, MsgLegacy.md5sum, "*"}

\* m.instantiate<T>() on the instance the iterator gave last
InstantiateAs(T_md5sum) ==
  /\ view.valid
  /\ yielded # <<>>
  /\ LET m == yielded[Len(yielded)]
         md5sum == topics_recorded_[m.topic].md5sum
         r == MessageInstance_instantiate(T_md5sum, md5sum, file, m.pos, rs_fail)
     IN  inst' = [called |-> TRUE, T_md5sum |-> T_md5sum, md5sum |-> md5sum,
                  topic |-> m.topic, pos |-> m.pos, read |-> r.read,
                  value |-> r.value, thrown |-> "none"]
  /\ UNCHANGED <<file, bagVars, viewVars, written, hist, concVars, last, eq>>

\* View::begin that returns the iterator end() returns
begin_end(v) == <<>>

\* View::begin: the iterator gets a copy of the queue of the View
begin(v) == v.merge_queue

\* the helpers that can be at the top of a queue; 0 where it has none
Tops(q) == IF q = <<>> THEN {0} ELSE QueueTops(topic_indexes_, q)

\* *(q.top().iter): the IndexEntry the helper at the top points at
TopEntry(q, i) ==
  IF q = <<>> THEN NoEntry
  ELSE [topic |-> q[i].topic, time |-> topic_indexes_[q[i].topic][q[i].iter].time,
        pos |-> topic_indexes_[q[i].topic][q[i].iter].pos]

\* it2 = view.begin()
Begin ==
  /\ view.valid
  /\ it2' = [q |-> begin(view), began |-> TRUE, after |-> Len(yielded), n |-> 0]
  /\ UNCHANGED <<file, bagVars, view, iter, yielded, written, hist, extVars>>

\* it2 = view.end()
TakeEnd ==
  /\ view.valid
  /\ it2' = [q |-> End, began |-> FALSE, after |-> 0, n |-> 0]
  /\ UNCHANGED <<file, bagVars, view, iter, yielded, written, hist, extVars>>

\* ++it2, on an iterator that is not end()
IncrementOther ==
  /\ view.valid
  /\ it2.q # <<>>
  /\ \E j \in Tops(it2.q) :
       it2' = [it2 EXCEPT !.q = increment(it2.q, j), !.n = @ + 1]
  /\ UNCHANGED <<file, bagVars, view, iter, yielded, written, hist, extVars>>

\* it == it2
Compare ==
  /\ view.valid
  /\ \E i \in Tops(iter), j \in Tops(it2.q) :
       eq' = [called |-> TRUE, q |-> iter, top |-> TopEntry(iter, i),
              other |-> it2.q, other_top |-> TopEntry(it2.q, j),
              ret |-> equal(iter, i, it2.q, j)]
  /\ UNCHANGED <<file, bagVars, viewVars, written, hist, concVars, inst, last>>

\* ------------------------------------------ calls in any order, and faults

\* The caller's side of a call: what it got back.  No function of the
\* library has a throw statement, so nothing is ever thrown; fatal: the
\* test of write_stream_.fail() at the end of write() logged ROS_FATAL.
Called(op, topic, ret, fatal) ==
  /\ last.n < MaxCalls
  /\ last' = [n |-> last.n + 1, op |-> op, topic |-> topic, ret |-> ret,
              thrown |-> "none", open |-> ws_open, enabled |-> writing_enabled_,
              fatal |-> fatal]
  /\ UNCHANGED <<concVars, inst, eq>>

\* open, write and close with what the caller got back recorded in last
CallOpenWrite(free) ==
  \E ret \in Rets : DoOpenWrite(free, ret) /\ Called("open_write", "", ret, FALSE)

CallOpenRead ==
  \E ret \in Rets : DoOpenRead(ret) /\ Called("open_read", "", ret, FALSE)

CallWrite(topic_name, time, msg, check, io_error) ==
  /\ DoWrite(topic_name, time, msg, check, io_error)
  /\ Called("write", topic_name, "none", ~Discards(writing_enabled_) /\ ws_fail')

CallClose == DoClose /\ Called("close", "", "none", FALSE)

\* The recording process is killed: close() is never called; the file stays
\* as written, and the next process starts with a handle of its own.
Killed ==
  /\ ws_open
  /\ Aborted
  /\ Called("killed", "", "none", FALSE)

\* Version numbers other than VERSION_MAJOR.VERSION_MINOR: the major one, the
\* minor one or both differ
ForeignVersions == {<<2, 2>>, <<1, 3>>, <<2, 3>>}

\* The bag at the path is one recorded by another release of the library:
\* the same records under another version line.
ForeignVersion(v) ==
  /\ ~ws_open /\ ~rs_open
  /\ file # <<>>
  /\ file[1].rec.op = VERSION_LINE
  /\ file[1].rec.major = VERSION_MAJOR /\ file[1].rec.minor = VERSION_MINOR
  /\ file' = [file EXCEPT ![1].rec.major = v[1], ![1].rec.minor = v[2]]
  /\ UNCHANGED <<bagVars, viewVars, written, hist, extVars>>

\* --------------------------------------------- write() and close() by steps
\* One step is the taking of a mutex, what a thread does under it up to its
\* release, or one statement where it holds none.  The stream is at
\* record_pos_ + tellp_off.

\* ~scoped_lock(): the mutex is given up at the end of the block
Unlock_never(owner) == owner

Unlock(owner) == Free

\* the output stream of the handle, at its own position
Stream == Out(file, record_pos_ + tellp_off, ws_open, ws_fail)

\* the threads whose write() holds a reference to a MsgInfo of the table
InFlight == {p \in Threads : pc[p] \in {"disk", "checking", "lock", "def", "data"}}

\* const MsgInfo& msg_info = key->second, read by thread p: after clear()
\* the reference dangles, and what is read is the old value or not
MsgInfoRead(p) ==
  IF call[p].dangling THEN {call[p].msg_info, NoMsgInfo} ELSE {call[p].msg_info}

\* write(): the test of writing_enabled_
CWriteBegin(p, topic_name, time, msg) ==
  /\ pc[p] = "idle"
  /\ IF Discards(writing_enabled_)
     THEN UNCHANGED vars
     ELSE /\ hist.writes < MaxWrites
          /\ hist' = [hist EXCEPT !.writes = @ + 1, !.read_ok = FALSE]
          /\ pc' = [pc EXCEPT ![p] = "admit"]
          /\ call' = [call EXCEPT ![p] = [NoCall EXCEPT !.topic = topic_name,
                                                        !.time = time,
                                                        !.msg = msg]]
          /\ UNCHANGED <<file, mode_, ws_open, ws_fail, rs_open, rs_fail,
                         record_pos_, file_header_pos_, index_data_pos_,
                         topics_recorded_, topic_indexes_, writing_enabled_,
                         version_major_, version_minor_, view, iter, yielded, it2,
                         written, record_mutex_, topics_recorded_mutex_,
                         check_disk_mutex_, tellp_off, inst, last, eq>>

\* write(): scoped_lock lock(topics_recorded_mutex_)
CWriteLockTopics(p) ==
  /\ pc[p] = "admit"
  /\ topics_recorded_mutex_ = Free
  /\ topics_recorded_mutex_' = p
  /\ pc' = [pc EXCEPT ![p] = "admitting"]
  /\ UNCHANGED <<file, mode_, ws_open, ws_fail, rs_open, rs_fail, record_pos_,
                 file_header_pos_, index_data_pos_, topics_recorded_,
                 topic_indexes_, writing_enabled_, version_major_,
                 version_minor_, view, iter, yielded, it2, written, hist, call,
                 record_mutex_, check_disk_mutex_, tellp_off, inst, last, eq>>

\* write(): the block under topics_recorded_mutex_
CWriteAdmit(p) ==
  /\ pc[p] = "admitting"
  /\ LET a == Admit(topics_recorded_, topic_indexes_, call[p].topic, call[p].msg)
     IN  /\ topics_recorded_' = a.tr
         /\ topic_indexes_' = a.ti
         /\ call' = [call EXCEPT ![p].needs_def_written = a.needs_def_written,
                                 ![p].msg_info = a.tr[call[p].topic]]
  /\ topics_recorded_mutex_' = Unlock(p)
  /\ pc' = [pc EXCEPT ![p] = "disk"]
  /\ UNCHANGED <<file, mode_, ws_open, ws_fail, rs_open, rs_fail, record_pos_,
                 file_header_pos_, index_data_pos_, writing_enabled_,
                 version_major_, version_minor_, view, iter, yielded, it2, written,
                 hist, record_mutex_, check_disk_mutex_, tellp_off, inst,
                 last, eq>>

\* write(): scoped_lock lock(check_disk_mutex_)
CWriteLockDisk(p) ==
  /\ pc[p] = "disk"
  /\ check_disk_mutex_ = Free
  /\ check_disk_mutex_' = p
  /\ pc' = [pc EXCEPT ![p] = "checking"]
  /\ UNCHANGED <<file, mode_, ws_open, ws_fail, rs_open, rs_fail, record_pos_,
                 file_header_pos_, index_data_pos_, topics_recorded_,
                 topic_indexes_, writing_enabled_, version_major_,
                 version_minor_, view, iter, yielded, it2, written, hist, call,
                 record_mutex_, topics_recorded_mutex_, tellp_off, inst,
                 last, eq>>

\* write(): the block under check_disk_mutex_
CWriteDisk(p, check) ==
  /\ pc[p] = "checking"
  /\ writing_enabled_' = checkDisk(check, writing_enabled_)
  /\ check_disk_mutex_' = Unlock(p)
  /\ pc' = [pc EXCEPT ![p] = "lock"]
  /\ UNCHANGED <<file, mode_, ws_open, ws_fail, rs_open, rs_fail, record_pos_,
                 file_header_pos_, index_data_pos_, topics_recorded_,
                 topic_indexes_, version_major_, version_minor_, view, iter,
                 yielded, it2, written, hist, call, record_mutex_,
                 topics_recorded_mutex_, tellp_off, inst, last, eq>>

\* write(): scoped_lock lock(record_mutex_), and the index entry
CWriteIndex(p) ==
  /\ pc[p] = "lock"
  /\ record_mutex_ = Free
  /\ record_mutex_' = p
  /\ topic_indexes_' = PushIndex(topic_indexes_, call[p].topic, call[p].time,
                                 record_pos_)
  /\ pc' = [pc EXCEPT ![p] = IF call[p].needs_def_written THEN "def" ELSE "data"]
  /\ UNCHANGED <<file, mode_, ws_open, ws_fail, rs_open, rs_fail, record_pos_,
                 file_header_pos_, index_data_pos_, topics_recorded_,
                 writing_enabled_, version_major_, version_minor_, view, iter,
                 yielded, it2, written, hist, call, topics_recorded_mutex_,
                 check_disk_mutex_, tellp_off, inst, last, eq>>

\* write(): the definition record
CWriteDef(p) ==
  /\ pc[p] = "def"
  /\ \E info \in MsgInfoRead(p) :
       LET o1 == EmitDef(Stream, call[p].topic, info)
       IN  /\ file' = o1.file
           /\ record_pos_' = record_pos_ + (o1.pos - Stream.pos)
           /\ ws_fail' = o1.fail
           /\ call' = [call EXCEPT ![p].def_pos = Stream.pos,
                                   ![p].def_end = o1.pos]
  /\ pc' = [pc EXCEPT ![p] = "data"]
  /\ UNCHANGED <<mode_, ws_open, rs_open, rs_fail, file_header_pos_,
                 index_data_pos_, topics_recorded_, topic_indexes_,
                 writing_enabled_, version_major_, version_minor_, view, iter,
                 yielded, it2, written, hist, record_mutex_,
                 topics_recorded_mutex_, check_disk_mutex_, tellp_off, inst,
                 last, eq>>

\* write(): the data record, and the end of the scope of the lock
CWriteData(p) ==
  /\ pc[p] = "data"
  /\ \E info \in MsgInfoRead(p) :
       LET o1 == EmitData(Stream, call[p].topic, info, call[p].time, call[p].msg)
       IN  /\ file' = o1.file
           /\ record_pos_' = record_pos_ + (o1.pos - Stream.pos)
           /\ ws_fail' = o1.fail
           /\ call' = [call EXCEPT ![p].data_pos = Stream.pos]
  /\ written' = IF ws_open /\ ~ws_fail
                THEN Append(written, [topic |-> call[p].topic, time |-> call[p].time,
                                      msg |-> call[p].msg])
                ELSE written
  /\ record_mutex_' = Unlock(p)
  /\ pc' = [pc EXCEPT ![p] = "idle"]
  /\ UNCHANGED <<mode_, ws_open, rs_open, rs_fail, file_header_pos_,
                 index_data_pos_, topics_recorded_, topic_indexes_,
                 writing_enabled_, version_major_, version_minor_, view, iter,
                 yielded, it2, hist, topics_recorded_mutex_, check_disk_mutex_,
                 tellp_off, inst, last, eq>>

\* close(): the test of write_stream_.is_open()
CCloseBegin ==
  /\ pc[Closer] = "idle"
  /\ IF ~ws_open
     THEN UNCHANGED vars
     ELSE /\ pc' = [pc EXCEPT ![Closer] = "flush"]
          /\ UNCHANGED <<file, mode_, ws_open, ws_fail, rs_open, rs_fail,
                         record_pos_, file_header_pos_, index_data_pos_,
                         topics_recorded_, topic_indexes_, writing_enabled_,
                         version_major_, version_minor_, view, iter, yielded, it2,
                         written, hist, call, record_mutex_,
                         topics_recorded_mutex_, check_disk_mutex_, tellp_off,
                         inst, last, eq>>

\* writeIndex(): scoped_lock lock(record_mutex_)
CCloseLockIndex ==
  /\ pc[Closer] = "flush"
  /\ record_mutex_ = Free
  /\ record_mutex_' = Closer
  /\ pc' = [pc EXCEPT ![Closer] = "flushing"]
  /\ UNCHANGED <<file, mode_, ws_open, ws_fail, rs_open, rs_fail, record_pos_,
                 file_header_pos_, index_data_pos_, topics_recorded_,
                 topic_indexes_, writing_enabled_, version_major_,
                 version_minor_, view, iter, yielded, it2, written, hist, call,
                 topics_recorded_mutex_, check_disk_mutex_, tellp_off, inst,
                 last, eq>>

\* writeIndex(): the block under record_mutex_
CCloseIndex ==
  /\ pc[Closer] = "flushing"
  /\ index_data_pos_' = record_pos_
  /\ LET o1 == WriteIndexRecords(Stream, KeysInOrder(topic_indexes_),
                                 topic_indexes_, topics_recorded_)
     IN  /\ file' = o1.file
         /\ record_pos_' = record_pos_ + (o1.pos - Stream.pos)
         /\ ws_fail' = o1.fail
  /\ record_mutex_' = Unlock(Closer)
  /\ pc' = [pc EXCEPT ![Closer] = "seekp"]
  /\ UNCHANGED <<mode_, ws_open, rs_open, rs_fail, file_header_pos_,
                 topics_recorded_, topic_indexes_, writing_enabled_,
                 version_major_, version_minor_, view, iter, yielded, it2, written,
                 hist, call, topics_recorded_mutex_, check_disk_mutex_,
                 tellp_off, inst, last, eq>>

\* seek(file_header_pos_): write_stream_.seekp(pos), no mutex held
CCloseSeekp ==
  /\ pc[Closer] = "seekp"
  /\ tellp_off' = file_header_pos_ - record_pos_
  /\ pc' = [pc EXCEPT ![Closer] = "setpos"]
  /\ UNCHANGED <<file, mode_, ws_open, ws_fail, rs_open, rs_fail, record_pos_,
                 file_header_pos_, index_data_pos_, topics_recorded_,
                 topic_indexes_, writing_enabled_, version_major_,
                 version_minor_, view, iter, yielded, it2, written, hist, call,
                 record_mutex_, topics_recorded_mutex_, check_disk_mutex_,
                 inst, last, eq>>

\* seek(file_header_pos_): record_pos_ = pos, no mutex held
CCloseSetpos ==
  /\ pc[Closer] = "setpos"
  /\ record_pos_' = file_header_pos_
  /\ tellp_off' = (record_pos_ + tellp_off) - file_header_pos_
  /\ pc' = [pc EXCEPT ![Closer] = "header"]
  /\ UNCHANGED <<file, mode_, ws_open, ws_fail, rs_open, rs_fail,
                 file_header_pos_, index_data_pos_, topics_recorded_,
                 topic_indexes_, writing_enabled_, version_major_,
                 version_minor_, view, iter, yielded, it2, written, hist, call,
                 record_mutex_, topics_recorded_mutex_, check_disk_mutex_,
                 inst, last, eq>>

\* writeFileHeader(): scoped_lock lock(record_mutex_)
CCloseLockHeader ==
  /\ pc[Closer] = "header"
  /\ record_mutex_ = Free
  /\ record_mutex_' = Closer
  /\ pc' = [pc EXCEPT ![Closer] = "heading"]
  /\ UNCHANGED <<file, mode_, ws_open, ws_fail, rs_open, rs_fail, record_pos_,
                 file_header_pos_, index_data_pos_, topics_recorded_,
                 topic_indexes_, writing_enabled_, version_major_,
                 version_minor_, view, iter, yielded, it2, written, hist, call,
                 topics_recorded_mutex_, check_disk_mutex_, tellp_off, inst,
                 last, eq>>

\* writeFileHeader(), under record_mutex_
CCloseHeader ==
  /\ pc[Closer] = "heading"
  /\ LET o1 == writeFileHeader(Stream, index_data_pos_)
     IN  /\ file' = o1.file
         /\ record_pos_' = record_pos_ + (o1.pos - Stream.pos)
         /\ ws_fail' = o1.fail
  /\ file_header_pos_' = record_pos_
  /\ record_mutex_' = Unlock(Closer)
  /\ pc' = [pc EXCEPT ![Closer] = "clear"]
  /\ UNCHANGED <<mode_, ws_open, rs_open, rs_fail, index_data_pos_,
                 topics_recorded_, topic_indexes_, writing_enabled_,
                 version_major_, version_minor_, view, iter, yielded, it2, written,
                 hist, call, topics_recorded_mutex_, check_disk_mutex_,
                 tellp_off, inst, last, eq>>

\* close(): topics_recorded_.clear(); topic_indexes_.clear()
CCloseClear ==
  /\ pc[Closer] = "clear"
  /\ topics_recorded_' = EmptyMap
  /\ topic_indexes_' = EmptyMap
  /\ call' = [p \in Threads |->
                IF p \in InFlight THEN [call[p] EXCEPT !.dangling = TRUE]
                ELSE call[p]]
  /\ pc' = [pc EXCEPT ![Closer] = "close"]
  /\ UNCHANGED <<file, mode_, ws_open, ws_fail, rs_open, rs_fail, record_pos_,
                 file_header_pos_, index_data_pos_, writing_enabled_,
                 version_major_, version_minor_, view, iter, yielded, it2, written,
                 hist, record_mutex_, topics_recorded_mutex_,
                 check_disk_mutex_, tellp_off, inst, last, eq>>

\* close(): write_stream_.close()
CCloseStream ==
  /\ pc[Closer] = "close"
  /\ ws_open' = FALSE
  /\ pc' = [pc EXCEPT ![Closer] = "idle"]
  /\ UNCHANGED <<file, mode_, ws_fail, rs_open, rs_fail, record_pos_,
                 file_header_pos_, index_data_pos_, topics_recorded_,
                 topic_indexes_, writing_enabled_, version_major_,
                 version_minor_, view, iter, yielded, it2, written, hist, call,
                 record_mutex_, topics_recorded_mutex_, check_disk_mutex_,
                 tellp_off, inst, last, eq>>

\* The calls of a program that records one bag and then reads it: the bag
\* is written once, by a handle that is not open; writes come between
\* open(Write) and close; the bag is opened for Read once, by a handle
\* neither of whose streams is open; one View is built at a time.
Next ==
  \/ ~ws_open /\ file = <<>> /\ \E free \in DiskStates : OpenWrite(free)
  \/ ~ws_open /\ ~rs_open /\ hist.r_opens = 0 /\ OpenRead
  \/ ws_open /\ \E t \in Topics, time \in Times, m \in Msgs, check \in DiskStates :
                  Write(t, time, m, check)
  \/ Close
  \/ Reconstruct
  \/ ~view.valid /\ \E topics \in QueryLists, r \in QueryRanges :
                      GetView(topics, r[1], r[2])
  \/ Increment

Spec == Init /\ [][Next]_vars

\* The same program, opening for Read also a handle whose read stream is
\* open (close() does not close it), and building no View.
NextReopen ==
  \/ ~ws_open /\ file = <<>> /\ \E free \in DiskStates : OpenWrite(free)
  \/ ~ws_open /\ OpenRead
  \/ ws_open /\ \E t \in Topics, time \in Times, m \in Msgs, check \in DiskStates :
                  Write(t, time, m, check)
  \/ Close
  \/ Reconstruct

SpecReopen == Init /\ [][NextReopen]_vars

\* A program that opens a bag for Write and then has two threads call
\* write() and a third call close(), with nothing to order the calls.
NextConc ==
  \/ ~ws_open /\ file = <<>> /\ \E free \in DiskStates : OpenWrite(free)
  \/ ws_open /\ \E p \in Threads, t \in Topics, m \in Msgs :
                  CWriteBegin(p, t, TIME_MIN, m)
  \/ \E p \in Threads : CWriteLockTopics(p)
  \/ \E p \in Threads : CWriteAdmit(p)
  \/ \E p \in Threads : CWriteLockDisk(p)
  \/ \E p \in Threads, check \in DiskStates : CWriteDisk(p, check)
  \/ \E p \in Threads : CWriteIndex(p)
  \/ \E p \in Threads : CWriteDef(p)
  \/ \E p \in Threads : CWriteData(p)
  \/ CCloseBegin
  \/ CCloseLockIndex
  \/ CCloseIndex
  \/ CCloseSeekp
  \/ CCloseSetpos
  \/ CCloseLockHeader
  \/ CCloseHeader
  \/ CCloseClear
  \/ CCloseStream

SpecConc == Init /\ [][NextConc]_vars

\* the steps of a write() call of thread p after its first
WriteStep(p) ==
  \/ CWriteLockTopics(p)
  \/ CWriteAdmit(p)
  \/ CWriteLockDisk(p)
  \/ \E check \in DiskStates : CWriteDisk(p, check)
  \/ CWriteIndex(p)
  \/ CWriteDef(p)
  \/ CWriteData(p)

\* the steps of a close() call after its first
CloseStep ==
  \/ CCloseLockIndex
  \/ CCloseIndex
  \/ CCloseSeekp
  \/ CCloseSetpos
  \/ CCloseLockHeader
  \/ CCloseHeader
  \/ CCloseClear
  \/ CCloseStream

\* The same threads under a fair scheduler: a thread that is in a call and
\* can take its next step takes it in the end.  Each thread calls write()
\* once, with the first or the second message of a topic.
NextLocks ==
  \/ ~ws_open /\ file = <<>> /\ \E free \in DiskStates : OpenWrite(free)
  \/ ws_open /\ \E p \in Threads, t \in Topics :
                  call[p] = NoCall /\ CWriteBegin(p, t, TIME_MIN, MsgString)
  \/ \E p \in Threads : WriteStep(p)
  \/ CCloseBegin
  \/ CloseStep

Fairness ==
  /\ \A p \in Threads : WF_vars(WriteStep(p))
  /\ WF_vars(CloseStep)

SpecLocks == Init /\ [][NextLocks]_vars /\ Fairness

\* A program that opens a bag for Write and has two threads call write(),
\* close() not yet called.
NextRace ==
  \/ ~ws_open /\ file = <<>> /\ \E free \in DiskStates : OpenWrite(free)
  \/ ws_open /\ \E p \in Threads, t \in Topics, time \in Times, m \in Msgs :
                  CWriteBegin(p, t, time, m)
  \/ \E p \in Threads : CWriteLockTopics(p)
  \/ \E p \in Threads : CWriteAdmit(p)
  \/ \E p \in Threads : CWriteLockDisk(p)
  \/ \E p \in Threads, check \in DiskStates : CWriteDisk(p, check)
  \/ \E p \in Threads : CWriteIndex(p)
  \/ \E p \in Threads : CWriteDef(p)
  \/ \E p \in Threads : CWriteData(p)

SpecRace == Init /\ [][NextRace]_vars

\* A program that calls open, write and close in any order on one handle,
\* over a disk that may fail and bags that other releases recorded.
NextFaults ==
  \/ \E free \in DiskStates : CallOpenWrite(free)
  \/ CallOpenRead
  \/ \E t \in Topics, m \in Msgs, check \in DiskStates, io_error \in BOOLEAN :
       CallWrite(t, TIME_MIN, m, check, io_error)
  \/ CallClose
  \/ Killed
  \/ \E v \in ForeignVersions : ForeignVersion(v)

SpecFaults == Init /\ [][NextFaults]_vars

\* A program that records one bag, reads it, walks a View of all of it and
\* instantiates the instances it is given as one type or another.
NextTyped ==
  \/ ~ws_open /\ file = <<>> /\ \E free \in DiskStates : OpenWrite(free)
  \/ ws_open /\ \E t \in Topics, time \in Times, m \in Msgs, check \in DiskStates :
                  Write(t, time, m, check)
  \/ Close
  \/ ~ws_open /\ ~rs_open /\ hist.r_opens = 0 /\ OpenRead
  \/ ~view.valid /\ GetView(<<"/a", "/b">>, TIME_MIN, TIME_MAX)
  \/ Increment
  \/ \E T_md5sum \in TypeFingerprints : InstantiateAs(T_md5sum)

SpecTyped == Init /\ [][NextTyped]_vars

\* A bag written, closed and read, and two iterators over one View of it:
\* the one traversed and a second one that is begin(), end() or advanced
\* on its own, and compared with the first.  A comparison changes neither
\* iterator: one is explored for each pair of iterators, as the last step.
NextIter ==
  \/ ~ws_open /\ file = <<>> /\ OpenWrite("plenty")
  \/ ws_open /\ \E t \in Topics, time \in Times : Write(t, time, MsgString, "plenty")
  \/ Close
  \/ ~ws_open /\ ~rs_open /\ hist.r_opens = 0 /\ OpenRead
  \/ ~view.valid /\ \E topics \in QueryLists : GetView(topics, TIME_MIN, TIME_MAX)
  \/ ~eq.called /\ Increment
  \/ ~eq.called /\ Begin
  \/ ~eq.called /\ TakeEnd
  \/ ~eq.called /\ IncrementOther
  \/ ~eq.called /\ Compare

SpecIter == Init /\ [][NextIter]_vars

-----------------------------------------------------------------------------
\* Properties

NoDuplicates(s) == \A i, j \in 1..Len(s) : s[i] = s[j] => i = j
Count(s, x) == Cardinality({i \in 1..Len(s) : s[i] = x})
Sorted(index) == \A i, j \in 1..Len(index) : i < j => index[i].time <= index[j].time
OnTopic(s, t) == SelectSeq(s, LAMBDA e : e.topic = t)
Triple(topic, time, payload) == [topic |-> topic, time |-> time, payload |-> payload]
Triples(s) == [i \in 1..Len(s) |-> Triple(s[i].topic, s[i].time, s[i].payload)]
WrittenTriples ==
  [i \in 1..Len(written) |->
     Triple(written[i].topic, written[i].time, written[i].msg.payload)]

\* the traversal of the View has reached end()
Done == view.valid /\ iter = <<>>
\* the View names each topic once, and the default time range
DefaultRange == view.start_time = TIME_MIN /\ view.end_time = TIME_MAX
\* the View is over all recorded topics
ViewAll ==
  /\ view.valid
  /\ NoDuplicates(view.topics)
  /\ DOMAIN topics_recorded_ \subseteq Range(view.topics)
  /\ DefaultRange

\* C1: a bag written by write() calls and closed, then opened for Read: the
\* complete traversal of a View over all recorded topics yields, as a
\* multiset, exactly the (topic, time, payload) triples that were written.
C1_RoundTripCompleteness ==
  (hist.read_ok /\ ViewAll /\ Done) =>
    \A x \in Range(WrittenTriples) \cup Range(Triples(yielded)) :
      Count(Triples(yielded), x) = Count(WrittenTriples, x)

\* two writes of the same triple, and both came back
C1_Witness ==
  /\ hist.read_ok /\ ViewAll /\ Done
  /\ Len(written) = 2
  /\ WrittenTriples[1] = WrittenTriples[2]
  /\ Len(yielded) = 2

NonDecreasing(s) == \A i, j \in 1..Len(s) : i < j => s[i].time <= s[j].time

\* C2 (as stated): whatever timestamps were passed to write(), a View
\* over all topics yields non-decreasing timestamps.
C2_OrderingAnyWrites ==
  (hist.read_ok /\ ViewAll) => NonDecreasing(yielded)

\* C2: when the timestamps written to each topic are non-decreasing in
\* write order (each topic's index is sorted by time), a View yields
\* instances in non-decreasing timestamp order.
C2_Ordering ==
  (view.valid /\ \A t \in DOMAIN topic_indexes_ : Sorted(topic_indexes_[t]))
    => NonDecreasing(yielded)

\* two topics interleaved in time, written in another order than yielded
C2_Witness ==
  /\ hist.read_ok /\ ViewAll /\ Done
  /\ \A t \in DOMAIN topic_indexes_ : Sorted(topic_indexes_[t])
  /\ Len(written) = 2 /\ Len(yielded) = 2
  /\ written[1].topic # written[2].topic
  /\ written[1].time > written[2].time
  /\ yielded[1].time < yielded[2].time

InRange(t) ==
  SelectSeq(topic_indexes_[t],
            LAMBDA e : view.start_time <= e.time /\ e.time <= view.end_time)

C4_TopicFilter ==
  view.valid =>
    /\ \A i \in 1..Len(yielded) : yielded[i].topic \in Range(view.topics)
    /\ \A i \in 1..Len(view.merge_queue) :
         view.merge_queue[i].topic \in Range(view.topics) \cap DOMAIN topics_recorded_
    /\ Len(yielded) <= view.size

\* a list with a topic never recorded, and a recorded topic left out
C4_Witness ==
  /\ hist.read_ok /\ Done
  /\ view.topics = <<"/c", "/a">>
  /\ DOMAIN topics_recorded_ = {"/a", "/b"}
  /\ Len(yielded) = 1

\* C5: for each topic, a View yields the instances of that topic in the order
\* of the write() calls, timestamps notwithstanding: a run of consecutive
\* writes of the topic, and all of them on a complete traversal of the default
\* range.
C5_PerTopicInsertionOrder ==
  (hist.read_ok /\ view.valid /\ NoDuplicates(view.topics)) =>
    \A t \in Range(view.topics) :
      LET y == Triples(OnTopic(yielded, t))
          w == OnTopic(WrittenTriples, t)
      IN /\ \E k \in 0..Len(w) :
              /\ k + Len(y) <= Len(w)
              /\ \A i \in 1..Len(y) : y[i] = w[k + i]
         /\ (Done /\ DefaultRange) => y = w

\* one topic written with decreasing timestamps, yielded as written
C5_Witness ==
  /\ hist.read_ok /\ Done /\ DefaultRange /\ NoDuplicates(view.topics)
  /\ Len(written) = 2 /\ Len(yielded) = 2
  /\ written[1].topic = written[2].topic
  /\ written[1].time > written[2].time
  /\ yielded[1].time > yielded[2].time
  /\ yielded[1].payload # yielded[2].payload

\* the write() call on topic t whose index entry is at offset pos
WriteAtPos(t, pos) ==
  LET k == CHOOSE k \in 1..Len(topic_indexes_[t]) : topic_indexes_[t][k].pos = pos
  IN  OnTopic(written, t)[k]

\* the data record of the write() call whose index entry is at offset pos:
\* the record at pos, or the one after it when that is a definition record
DataRecordAt(pos) ==
  LET h == readHeader(file, pos, FALSE)
  IN  IF h.rec.op = OP_MSG_DEF THEN readHeader(file, h.next, FALSE).rec ELSE h.rec

\* C6: in a bag read back, the index entry of every write() call holds the
\* offset where the records of that call begin, and instantiate at that offset
\* gives the payload of the data record of that call, stepping over the
\* definition record; this is the payload of every instance a View yields.
C6_IndexCorrectness ==
  hist.read_ok =>
    /\ \A t \in DOMAIN topic_indexes_ :
         /\ Len(topic_indexes_[t]) = Len(OnTopic(written, t))
         /\ \A k \in 1..Len(topic_indexes_[t]) :
              LET e == topic_indexes_[t][k]
                  w == OnTopic(written, t)[k]
                  d == DataRecordAt(e.pos)
              IN  /\ e.time = w.time
                  /\ d.op = OP_MSG_DATA
                  /\ d.topic = t
                  /\ d.time = w.time
                  /\ d.data = w.msg.payload
                  /\ instantiate(file, e.pos, rs_fail) = w.msg.payload
    /\ \A i \in 1..Len(yielded) :
         LET w == WriteAtPos(yielded[i].topic, yielded[i].pos)
         IN  yielded[i].payload = w.msg.payload /\ yielded[i].time = w.time

\* an instance whose index entry is at a definition record, and one whose
\* entry is at a data record
C6_Witness ==
  /\ hist.read_ok /\ Done
  /\ Len(yielded) = 2
  /\ yielded[1].topic = yielded[2].topic
  /\ readHeader(file, yielded[1].pos, FALSE).rec.op = OP_MSG_DEF
  /\ readHeader(file, yielded[2].pos, FALSE).rec.op = OP_MSG_DATA
  /\ yielded[1].payload = "hi" /\ yielded[2].payload = "x"

IndexRecordOffsets == {c.pos : c \in {x \in Range(file) : x.rec.op = OP_INDEX_DATA}}

\* C7: in a bag written and closed, the index_pos of the file header (the
\* record after the version line) is the offset of the first index record,
\* and the offset where the data ends when no topic was recorded.
C7_FileHeaderIndexPos ==
  hist.file_ok =>
    \E c \in ChunksAt(file, VERSION_LINE_LENGTH) :
      /\ c.rec.op = OP_FILE_HEADER
      /\ c.rec.index_pos = FileSize(SelectSeq(file, LAMBDA x : x.rec.op # OP_INDEX_DATA))
      /\ IndexRecordOffsets # {} =>
           /\ c.rec.index_pos \in IndexRecordOffsets
           /\ \A p \in IndexRecordOffsets : c.rec.index_pos <= p

\* two index records behind two messages
C7_Witness ==
  /\ hist.file_ok
  /\ Cardinality(IndexRecordOffsets) = 2
  /\ Len(written) = 2
  /\ \E c \in ChunksAt(file, VERSION_LINE_LENGTH) :
       c.rec.op = OP_FILE_HEADER /\ c.rec.index_pos > c.pos + c.len

\* C8: after open(Read) of a bag written and closed, topic_indexes_ and
\* topics_recorded_ equal, key by key and entry by entry, the tables the
\* writer held when it called close().
C8_ReaderStateEqualsWriterState ==
  hist.read_ok =>
    /\ topic_indexes_ = hist.w_indexes
    /\ topics_recorded_ = hist.w_topics

\* two topics of different types, one with two entries
C8_Witness ==
  /\ hist.read_ok
  /\ hist.writes = 2
  /\ DOMAIN topic_indexes_ = {"/a", "/b"}
  /\ DOMAIN topics_recorded_ = {"/a", "/b"}
  /\ topics_recorded_["/a"].datatype # topics_recorded_["/b"].datatype
  /\ topic_indexes_ = hist.w_indexes

MsgInfoOf(t, msg) ==
  [topic |-> t, msg_def |-> msg.msg_def, datatype |-> msg.datatype,
   md5sum |-> msg.md5sum]

\* C9: the MsgInfo of a topic is the one taken from the first message
\* written on it, in the writer whatever is written on the topic later, and
\* in the reader after the bag is read back, an empty msg_def included; the
\* file holds one definition record for the topic.
C9_DefinitionPersistence ==
  ((ws_open /\ ~ws_fail /\ hist.w_clean) \/ hist.read_ok) =>
    \A t \in DOMAIN topics_recorded_ :
      /\ OnTopic(written, t) # <<>>
      /\ topics_recorded_[t] = MsgInfoOf(t, OnTopic(written, t)[1].msg)
      /\ Cardinality({c \in Range(file) : c.rec.op = OP_MSG_DEF /\ c.rec.topic = t}) = 1

\* read back: a topic whose first message has an empty definition and whose
\* second message is of another type
C9_Witness ==
  /\ hist.read_ok
  /\ \E t \in DOMAIN topics_recorded_ :
       /\ Len(OnTopic(written, t)) = 2
       /\ OnTopic(written, t)[1].msg = MsgLegacy
       /\ OnTopic(written, t)[2].msg = MsgString
       /\ topics_recorded_[t].msg_def = ""
       /\ topics_recorded_[t].datatype = "std_msgs/Int8"

C11_RecordAtomicity ==
  /\ \A p \in Threads :
       (call[p].needs_def_written /\ call[p].data_pos # Uninit)
         => call[p].data_pos = call[p].def_end
  /\ (record_mutex_ = Free /\ pc[Closer] # "setpos") => tellp_off = 0

\* a call whose data record does not follow its definition record
C11_Witness ==
  \E p \in Threads :
    /\ pc[p] = "idle"
    /\ call[p].needs_def_written
    /\ call[p].data_pos # Uninit
    /\ call[p].data_pos # call[p].def_end
    /\ call[p].data_pos = file_header_pos_

\* the index vector of a topic, empty when the topic has none
IndexOf(t) == IF t \in DOMAIN topic_indexes_ THEN topic_indexes_[t] ELSE <<>>

\* C12 (as stated): while a bag is being written, the index of each topic
\* holds one entry for every write() call on the topic that wrote its
\* message, in the order of the calls, and none for a call that was
\* discarded or that failed with an I/O error.
C12_IndexHoldsSuccessfulWrites ==
  (ws_open /\ hist.w_clean) =>
    \A t \in Topics :
      LET e == IndexOf(t)
          w == OnTopic(written, t)
      IN  /\ Len(e) = Len(w)
          /\ \A k \in 1..Len(e) : e[k].time = w[k].time

\* a write() whose stream failed has left an index entry for its message
C12_Witness ==
  /\ last.op = "write" /\ last.open /\ last.fatal
  /\ ws_open /\ hist.w_clean
  /\ Len(IndexOf(last.topic)) > Len(OnTopic(written, last.topic))

\* the bag at the path has a version line
HasVersionLine(f) == f # <<>> /\ f[1].rec.op = VERSION_LINE

\* C13 (as stated): open(Read) reports success only for a file whose
\* version line carries the current major and the current minor number; a
\* file that differs in either number is refused.
C13_VersionCheck ==
  (last.op = "open_read" /\ last.ret = "true" /\ HasVersionLine(file)) =>
    (file[1].rec.major = VERSION_MAJOR /\ file[1].rec.minor = VERSION_MINOR)

\* open(Read) has returned true for a bag of another major version
C13_Witness ==
  /\ last.op = "open_read" /\ last.ret = "true"
  /\ HasVersionLine(file)
  /\ file[1].rec.major = 2
  /\ version_major_ = 2

\* the index_pos field of the file header of the bag at the path
HeaderIndexPos(f) == readFileHeader(f, VERSION_LINE_LENGTH, FALSE, Uninit)

\* C14 (as stated): open(Read) of a bag whose file header carries
\* index_pos = 0, on a handle that is not writing the bag, does not report
\* success.
C14_UnclosedBagRefused ==
  (last.op = "open_read" /\ ~ws_open /\ HeaderIndexPos(file) = 0)
    => last.ret # "true"

\* open(Read) has returned true for such a bag, with nothing loaded
C14_Witness ==
  /\ last.op = "open_read" /\ last.ret = "true"
  /\ HeaderIndexPos(file) = 0
  /\ written # <<>>
  /\ ~ws_open /\ rs_open /\ topic_indexes_ = EmptyMap

\* C15 (as stated): from open(Write) until close() the file header on disk
\* carries index_pos = 0, on a handle that has written another bag before
\* as on a new one.
C15_PlaceholderHeader == ws_open => HeaderIndexPos(file) = 0

\* open(Write) on a handle that wrote a bag before has written a header
\* whose index_pos is not 0
C15_Witness ==
  /\ last.op = "open_write" /\ last.ret = "true"
  /\ ws_open
  /\ HeaderIndexPos(file) > 0

\* C16 (as stated): open(Read) does not report success when the file cannot
\* be opened, or when the index load reads, at the position the file header
\* gives, something that is no record.
C16_BootstrapErrorsAbortOpen ==
  (last.op = "open_read"
     /\ (file = <<>> \/ GarbageLength(file, HeaderIndexPos(file))))
    => last.ret # "true"

\* open(Read) has returned true though there is no file
C16_Witness ==
  /\ last.op = "open_read" /\ last.ret = "true"
  /\ file = <<>>
  /\ ~rs_open

\* C17 (as stated): write() on a handle that is not open throws
\* BagNotOpenException and leaves topics_recorded_, topic_indexes_ and
\* record_pos_ as they were.
C17_WriteWhenNotOpen ==
  [][(last'.n = last.n + 1 /\ last'.op = "write" /\ ~ws_open)
       => (/\ last'.thrown = "BagNotOpenException"
           /\ UNCHANGED <<topics_recorded_, topic_indexes_, record_pos_>>)]_vars

\* write() after close() has returned normally and admitted its topic
C17_Witness ==
  /\ last.op = "write" /\ ~last.open /\ last.enabled
  /\ last.thrown = "none"
  /\ ~ws_open /\ file # <<>>
  /\ last.topic \in DOMAIN topics_recorded_

\* C18 (as stated): a write() on an open bag whose stream fails throws
\* BagIOException.
C18_IoErrorSurfaced ==
  (last.op = "write" /\ last.open /\ last.fatal) => last.thrown = "BagIOException"

\* such a write() has returned normally
C18_Witness ==
  /\ last.op = "write" /\ last.open /\ last.fatal
  /\ last.thrown = "none"
  /\ ws_fail

\* C19: a write() called while writing_enabled_ is false returns normally
\* and leaves topics_recorded_, topic_indexes_, record_pos_ and the file as
\* they were; a topic not yet recorded is not admitted.
C19_DiscardWhenDisabled ==
  [][(last'.n = last.n + 1 /\ last'.op = "write" /\ ~writing_enabled_)
       => (/\ last'.thrown = "none"
           /\ UNCHANGED <<topics_recorded_, topic_indexes_, record_pos_, file>>)]_vars

\* a first message on a new topic was discarded on an open bag
C19_Witness ==
  /\ last.op = "write" /\ last.open /\ ~last.enabled
  /\ ws_open /\ ~writing_enabled_
  /\ last.topic \notin DOMAIN topics_recorded_

\* the data record at the offset of an index entry, past the definition
\* record a first message has before it
RecordAt(f, pos) ==
  LET h == readHeader(f, pos, FALSE)
  IN  IF h.ok /\ h.rec.op = OP_MSG_DEF THEN readHeader(f, h.next, FALSE) ELSE h

DefsOf(f, t) ==
  {f[i].pos : i \in {j \in 1..Len(f) : f[j].rec.op = OP_MSG_DEF /\ f[j].rec.topic = t}}

DataOf(f, t) ==
  {f[i].pos : i \in {j \in 1..Len(f) : f[j].rec.op = OP_MSG_DATA /\ f[j].rec.topic = t}}

\* C21 (as stated): whatever the interleaving of write() calls, every data
\* record of a topic has a definition record of the topic before it in the
\* file, and, no thread being inside its record block, the first index entry
\* of a topic is the offset of the topic's definition record.
C21_DefinitionBeforeData ==
  \A t \in Topics :
    /\ \A d \in DataOf(file, t) : \E m \in DefsOf(file, t) : m < d
    /\ (record_mutex_ = Free /\ IndexOf(t) # <<>>)
         => IndexOf(t)[1].pos \in DefsOf(file, t)

\* the thread that found the topic admitted has written its data record
\* before the admitting thread wrote the definition
C21_Witness ==
  \E p, q \in Threads :
    /\ pc[p] = "idle" /\ pc[q] = "idle"
    /\ call[p].topic = call[q].topic
    /\ call[p].needs_def_written /\ ~call[q].needs_def_written
    /\ call[p].def_pos # Uninit /\ call[q].data_pos # Uninit
    /\ call[q].data_pos < call[p].def_pos
    /\ IndexOf(call[p].topic)[1].pos = call[q].data_pos

\* no write() call is in progress
Quiescent == \A p \in Threads : pc[p] = "idle"

\* C22: between open(Write) and the call of close(), whatever the
\* interleaving of the write() calls, the file never holds more than one
\* definition record of a topic, a topic with a definition record is one
\* that was admitted, and once the calls have returned the topics with a
\* definition record are those that a message was written to.
C22_OneDefinitionPerTopic ==
  ws_open =>
    \A t \in Topics :
      /\ Cardinality(DefsOf(file, t)) <= 1
      /\ DefsOf(file, t) # {} => t \in DOMAIN topics_recorded_
      /\ Quiescent => (DefsOf(file, t) # {} <=> OnTopic(written, t) # <<>>)

\* two threads raced on the first message of a topic: one definition record
C22_Witness ==
  /\ ws_open /\ Quiescent
  /\ call["w1"].topic = call["w2"].topic
  /\ call["w1"].data_pos # Uninit /\ call["w2"].data_pos # Uninit
  /\ call["w1"].needs_def_written /\ ~call["w2"].needs_def_written
  /\ call["w2"].data_pos < call["w1"].def_pos
  /\ Cardinality(DefsOf(file, call["w1"].topic)) = 1
  /\ Len(OnTopic(written, call["w1"].topic)) = 2

\* the first record from offset pos on that is no definition record
RECURSIVE AfterDefs(_, _)
AfterDefs(f, pos) ==
  LET h == readHeader(f, pos, FALSE)
  IN  IF h.ok /\ h.rec.op = OP_MSG_DEF THEN AfterDefs(f, h.next) ELSE h

\* a record starts at the offset of the entry, and after zero or more
\* definition records comes the data record of the entry's topic and time
PointsAtData(f, t, entry) ==
  /\ readHeader(f, entry.pos, FALSE).ok
  /\ LET h == AfterDefs(f, entry.pos)
     IN  /\ h.ok
         /\ h.rec.op = OP_MSG_DATA
         /\ h.rec.topic = t
         /\ h.rec.time = entry.time

\* entry k of topic t was pushed by the write() call that is inside its
\* record block now
InProgress(t, k) ==
  /\ record_mutex_ \in Threads
  /\ call[record_mutex_].topic = t
  /\ k = Len(IndexOf(t))

\* where the record of the call inside its record block starts: at its
\* definition record if that is written, else where the stream stands
NextRecordPos ==
  IF pc[record_mutex_] = "data" /\ call[record_mutex_].needs_def_written
  THEN call[record_mutex_].def_pos
  ELSE Stream.pos

\* C23: while a bag is being written, every index entry of a topic is the
\* offset of a record, and from there on zero or more definition records are
\* followed by the data record of the entry's topic and time; the entry of
\* the call that is inside its record block is the offset at which the
\* call's records start; the offsets of a topic's entries increase strictly.
C23_IndexPositions ==
  ws_open =>
    \A t \in Topics :
      LET e == IndexOf(t)
      IN  /\ \A k \in 1..Len(e) :
               IF InProgress(t, k) THEN e[k].pos = NextRecordPos
               ELSE PointsAtData(file, t, e[k])
          /\ \A k \in 1..(Len(e) - 1) : e[k].pos < e[k + 1].pos

\* a topic with two entries, the first at its definition record and the
\* second at a data record, the later one with the earlier time
C23_Witness ==
  /\ ws_open /\ Quiescent
  /\ Len(IndexOf("/a")) = 2
  /\ IndexOf("/a")[1].pos \in DefsOf(file, "/a")
  /\ IndexOf("/a")[2].pos \in DataOf(file, "/a")
  /\ IndexOf("/a")[1].pos < IndexOf("/a")[2].pos
  /\ IndexOf("/a")[1].time > IndexOf("/a")[2].time

\* the entries the helpers of a queue have not yielded yet
RECURSIVE Remaining(_)
Remaining(q) ==
  IF q = <<>> THEN 0 ELSE (Head(q).end - Head(q).iter) + Remaining(Tail(q))

\* the helpers of a queue over the same range as h: same topic, same end
SameRange(q, h) ==
  {i \in 1..Len(q) : q[i].topic = h.topic /\ q[i].end = h.end}

AtEnd == \A i \in QueueTops(topic_indexes_, iter) \cup {0} : equal(iter, i, End, 0)

C26_IteratorEquality ==
  eq.called =>
    /\ eq.ret <=> \/ eq.q = <<>> /\ eq.other = <<>>
                  \/ eq.q # <<>> /\ eq.other # <<>> /\ eq.top = eq.other_top
    /\ (eq.q # <<>> /\ eq.other = End) => ~eq.ret
    /\ (eq.q = End /\ eq.other # <<>>) => ~eq.ret

\* two iterators of two helpers each compared, their tops at the same
\* position of different topics' vectors
C26_Witness ==
  /\ eq.called
  /\ Len(eq.q) = 2 /\ Len(eq.other) = 1
  /\ eq.top.topic # eq.other_top.topic
  /\ eq.top.pos # eq.other_top.pos
  /\ ~eq.ret

\* the state an increment of an iterator must leave alone: the View, the
\* tables of the bag and the file
ViewAndBag == <<view, topics_recorded_, topic_indexes_, file, bagVars>>

\* the entries an iterator with queue q can be dereferenced to
FirstEntries(q) == {TopEntry(q, j) : j \in Tops(q) \ {0}}

\* C27: an increment of one iterator changes the queue of that iterator
\* only: the View with its queue and size, the tables of the bag and the
\* other iterator stay as they were; and begin(), called after any number
\* of increments, gives an iterator at the first element of the View, the
\* one the traversal yielded first.
C27_IncrementFrame ==
  /\ [][/\ Len(yielded') = Len(yielded) + 1 =>
             /\ UNCHANGED <<ViewAndBag, it2>>
             /\ \E i \in Tops(iter) : iter' = increment(iter, i)
        /\ it2'.n = it2.n + 1 =>
             /\ UNCHANGED <<ViewAndBag, iter, yielded>>
             /\ \E j \in Tops(it2.q) : it2'.q = increment(it2.q, j)]_vars
  /\ [](view.valid /\ it2.began /\ it2.n = 0 =>
          /\ it2.q = view.merge_queue
          /\ yielded # <<>> =>
               [topic |-> yielded[1].topic, time |-> yielded[1].time,
                pos |-> yielded[1].pos] \in FirstEntries(it2.q))

\* begin() called after the traversal has yielded two entries, and the
\* iterator it gave advanced once
C27_Witness ==
  /\ view.valid
  /\ it2.began /\ it2.after = 2 /\ it2.n = 1
  /\ Len(yielded) = 2
  /\ iter = <<>>
  /\ it2.q # <<>>

\* the file-header records of a file
FileHeaders(f) == {c \in Range(f) : c.rec.op = OP_FILE_HEADER}

\* what a close() that wrote left of the file: one file header, where the
\* one of open(Write) was and as long, holding the index position; every
\* other record of before at its offset with its bytes; behind them the
\* index records, one for each topic, each beginning where the record
\* before it ends.
RewrittenInPlace ==
  /\ Cardinality(FileHeaders(file)) = 1
  /\ Cardinality(FileHeaders(file')) = 1
  /\ \A c \in FileHeaders(file), d \in FileHeaders(file') :
       /\ c.pos = file_header_pos_
       /\ d.pos = c.pos /\ d.len = c.len
       /\ d.rec.index_pos = record_pos_
  /\ Len(file') = Len(file) + Cardinality(DOMAIN topic_indexes_)
  /\ \A i \in 1..Len(file) :
       file[i].rec.op # OP_FILE_HEADER => file'[i] = file[i]
  /\ \A i \in (Len(file) + 1)..Len(file') :
       /\ file'[i].rec.op = OP_INDEX_DATA
       /\ file'[i].pos = file'[i - 1].pos + file'[i - 1].len

\* C28: the file header close() writes has the length of the one
\* open(Write) wrote and is written at its offset: the rewrite changes
\* nothing outside that record, and the definition, data and index records
\* are at the offsets they were written at.
C28_HeaderRewriteInPlace ==
  [][(ws_open /\ ~ws_open' /\ ~ws_fail') => RewrittenInPlace]_vars

\* a bag of two messages on two topics just closed, its file header
\* still the second record, as long as the records before the first message
\* leave room for, with the position of the first index record in it
C28_Witness ==
  /\ ~ws_open /\ ~ws_fail
  /\ Len(written) = 2
  /\ Len(file) = 8
  /\ file[2].rec.op = OP_FILE_HEADER
  /\ file[2].pos + file[2].len = file[3].pos
  /\ file[3].rec.op = OP_MSG_DEF
  /\ file[7].rec.op = OP_INDEX_DATA
  /\ file[2].rec.index_pos = file[7].pos

\* the mutexes thread p holds
Held(p) ==
  {m \in {"record", "topics", "disk"} :
     \/ m = "record" /\ record_mutex_ = p
     \/ m = "topics" /\ topics_recorded_mutex_ = p
     \/ m = "disk" /\ check_disk_mutex_ = p}

\* C29: no thread holds two of the three mutexes at a time; while a call
\* of write() or close() is under way some thread can take a step; and
\* under a fair scheduler every call of write() returns.
C29_LockDiscipline ==
  /\ [](\A p \in Threads \cup {Closer} : Cardinality(Held(p)) <= 1)
  /\ []((\E p \in Threads \cup {Closer} : pc[p] # "idle") =>
          ENABLED ((\E p \in Threads : WriteStep(p)) \/ CloseStep))
  /\ \A p \in Threads : (pc[p] # "idle") ~> (pc[p] = "idle")

\* one thread in the record block with the other waiting for record_mutex_
\* and close() waiting for it too
C29_Witness ==
  /\ record_mutex_ = "w1"
  /\ pc["w2"] = "lock"
  /\ pc[Closer] = "flush"
  /\ Held("w1") = {"record"}

\* a step that sets writing_enabled_ back to true
Reenabled == ~writing_enabled_ /\ writing_enabled_'

\* a step of open(Write) that opened the stream
Opened == ~ws_open /\ ws_open'

\* thread p leaves the block under check_disk_mutex_
CheckedDisk(p) == pc[p] = "checking" /\ pc'[p] = "lock"

\* C30, as stated: once writing_enabled_ is false only an open(Write) sets
\* it back to true, no call of write() does.
C30_DisabledIsSticky ==
  [][Reenabled => Opened]_vars

\* C30, amended: a call of write() that begins while writing_enabled_ is
\* false returns at the test and changes nothing, so no such call sets it
\* back to true; the flag is set back to true only by an open(Write) or by
\* the disk check of a write() of another thread that had passed the test
\* before the flag became false.
C30_DisabledIsStickyForNewCalls ==
  [][/\ Reenabled => Opened \/ \E p \in Threads : CheckedDisk(p)
     /\ ~writing_enabled_ => \A p \in Threads : pc[p] = "idle" => pc'[p] = "idle"]_vars

\* writing_enabled_ false, set by the disk check of a call that has
\* returned, while the call of the other thread, past the test, is about
\* to check the disk
C30_Witness ==
  /\ ~writing_enabled_
  /\ pc["w1"] = "checking"
  /\ pc["w2"] = "idle"
  /\ call["w2"] # NoCall
  /\ hist.writes = 2

\* a step that is a call of close(), by the program or by ~Bag()
CloseCall == last'.n = last.n + 1 /\ last'.op = "close"

\* C31: a close() that finds the write stream not open, as every close()
\* after the first of an open(Write) does, and every close() of a handle
\* never opened for Write, writes nothing and changes no field of the
\* handle; a close() that finds it open leaves it closed and both tables
\* empty, so the index and the file header are written once.
C31_CloseIdempotent ==
  [][CloseCall =>
       /\ ~ws_open => UNCHANGED <<file, bagVars, viewVars, written, hist>>
       /\ ws_open => /\ ~ws_open'
                     /\ topics_recorded_' = EmptyMap
                     /\ topic_indexes_' = EmptyMap]_vars

\* open(Write), write(), close() and close() again: the last call found
\* the stream closed, the file has its index record, the tables are empty
C31_Witness ==
  /\ last.n = 4 /\ last.op = "close" /\ ~last.open
  /\ mode_ = "Write" /\ ~ws_open
  /\ Cardinality(IndexRecordOffsets) = 1
  /\ Cardinality(FileHeaders(file)) = 1
  /\ topics_recorded_ = EmptyMap /\ topic_indexes_ = EmptyMap

\* a topic list with each topic named once, at its first place
RECURSIVE NamedOnce(_, _)
NamedOnce(topics, seen) ==
  IF topics = <<>> THEN <<>>
  ELSE IF Head(topics) \in seen THEN NamedOnce(Tail(topics), seen)
  ELSE <<Head(topics)>> \o NamedOnce(Tail(topics), seen \cup {Head(topics)})

\* C32 (as stated): a View whose topic list names a topic more than once
\* has the size of the View with the topic named once, and yields no index
\* entry twice.
C32_DuplicateTopicsOnce ==
  view.valid =>
    /\ view.size = getViewByTopic(NamedOnce(view.topics, {}), view.start_time,
                                  view.end_time, topic_indexes_,
                                  topics_recorded_, <<>>, 0).size
    /\ \A i, j \in 1..Len(yielded) :
         (yielded[i].topic = yielded[j].topic /\ yielded[i].pos = yielded[j].pos)
           => i = j

\* a topic of one message named twice: size() is 2 and the one message was
\* yielded twice
C32_Witness ==
  /\ hist.read_ok /\ Done
  /\ view.topics = <<"/b", "/b">>
  /\ "/b" \in DOMAIN topic_indexes_
  /\ Len(topic_indexes_["/b"]) = 1
  /\ view.size = 2
  /\ Len(yielded) = 2
  /\ yielded[1] = yielded[2]
====
